---- MODULE Spec2Model ----
(***************************************************************************)
(* zoekt-underhood: the result-assembly layer of web/server.go.            *)
(*                                                                         *)
(* A Go string is a sequence of one-character strings, so that splitting,  *)
(* trimming, concatenation and byte-wise comparison are computed as the    *)
(* code computes them.  A Go pointer is a sequence of length 0 (nil) or 1. *)
(* The search backend (zoekt.Searcher) is external: each call either fails *)
(* or returns some list of files of the corpus.                            *)
(***************************************************************************)
EXTENDS Integers, Sequences, FiniteSets, TLC

VARIABLES
    pc,        \* "idle": waiting for a request; "done": a handler has returned
    handler,   \* the route of the request just served
    request,   \* r.URL.Query(): each parameter is the sequence of its values
    reqTicket, \* the ticket parsed from the request, when the handler got there
    backend,   \* what the backend answered during this request
    calls,     \* the backend calls made by this request, in order
    sites,     \* manyFileSites as handed to groupSites (search-xref)
    decls,     \* declSites as handed to groupSites (search-xref)
    err,       \* the error the handler ended with, "none" if it succeeded
    response,  \* the http.ResponseWriter: header, status line sent, body
    ret,       \* what a function applied on its own returned
    expanded   \* the node of an earlier file-tree response that top names

vars ==
    <<pc, handler, request, reqTicket, backend, calls, sites, decls, err,
      response, ret, expanded>>

----------------------------------------------------------------------------
(* Bounds of the model                                                      *)

MaxTreeFiles == 3      \* files in one backend answer to a file-tree search
MaxRepos == 2          \* repositories in one backend answer to List
MaxXrefFiles == 4      \* files in one backend answer to a cross-reference search
MaxTextLen == 4        \* length of a ticket text given to parseTicket alone

----------------------------------------------------------------------------
(* Strings                                                                  *)

Nil == <<>>
Ptr(x) == <<x>>

\* Byte values of the characters that file and repository names are made of.
Ord(c) ==
    CASE c = "." -> 46 [] c = "/" -> 47 [] c = "1" -> 49 [] c = "2" -> 50
      [] c = ":" -> 58 [] c = "@" -> 64
      [] c = "a" -> 97 [] c = "b" -> 98 [] c = "c" -> 99 [] c = "d" -> 100
      [] c = "e" -> 101 [] c = "f" -> 102 [] c = "m" -> 109 [] c = "n" -> 110
      [] c = "r" -> 114 [] c = "t" -> 116 [] c = "x" -> 120 [] c = "y" -> 121
      [] OTHER -> 0

Min(a, b) == IF a < b THEN a ELSE b

\* Go's < on strings: byte-wise lexicographic.
StrLess(s, t) ==
    \E i \in 1..(Min(Len(s), Len(t)) + 1) :
        /\ \A j \in 1..(i - 1) : s[j] = t[j]
        /\ \/ i = Len(s) + 1 /\ i <= Len(t)
           \/ i <= Len(s) /\ i <= Len(t) /\ Ord(s[i]) < Ord(t[i])

\* strings.Index for a one-byte separator; 0 when absent.
IndexByte(s, c) ==
    IF \E i \in 1..Len(s) : s[i] = c
    THEN CHOOSE i \in 1..Len(s) : s[i] = c /\ \A j \in 1..(i - 1) : s[j] # c
    ELSE 0

\* strings.Split(s, sep)
RECURSIVE Split(_, _)
Split(s, sep) ==
    LET i == IndexByte(s, sep) IN
    IF i = 0 THEN <<s>>
    ELSE <<SubSeq(s, 1, i - 1)>> \o Split(SubSeq(s, i + 1, Len(s)), sep)

\* SplitN without its limit of 2: the text is cut at every separator.
SplitN2_noLimit(s, sep) == Split(s, sep)

\* strings.SplitN(s, sep, 2)
SplitN2(s, sep) ==
    LET i == IndexByte(s, sep) IN
    IF i = 0 THEN <<s>>
    ELSE <<SubSeq(s, 1, i - 1), SubSeq(s, i + 1, Len(s))>>

HasPrefix(s, p) == Len(p) <= Len(s) /\ SubSeq(s, 1, Len(p)) = p

\* strings.TrimPrefix
TrimPrefix(s, p) == IF HasPrefix(s, p) THEN SubSeq(s, Len(p) + 1, Len(s)) ELSE s

\* All sequences over S of length at most n.
SeqsUpTo(S, n) == UNION {[1..k -> S] : k \in 0..n}

----------------------------------------------------------------------------
(* Ticket addressing                                                        *)

\* parseTicket with the path guard off by one: the path is never filled in.
parseTicket_dropsPath(t) ==
    LET parts == SplitN2(t, ":") IN
    [repo |-> IF Len(parts) > 0 THEN parts[1] ELSE <<>>,
     path |-> IF Len(parts) > 2 THEN parts[2] ELSE <<>>]

\* parseTicket never fails: the error it returns is always nil.
parseTicket(t) ==
    LET parts == SplitN2(t, ":") IN
    [repo |-> IF Len(parts) > 0 THEN parts[1] ELSE <<>>,
     path |-> IF Len(parts) > 1 THEN parts[2] ELSE <<>>]

\* complete() that forgets the path.
complete_repoOnly(t) == t.repo # <<>>

complete(t) == t.repo # <<>> /\ t.path # <<>>

\* f.Repository + ":" + f.FileName
formatTicket(repo, path) == repo \o <<":">> \o path

\* ticket{}: both parts empty.
NoTicket == [repo |-> <<>>, path |-> <<>>]

----------------------------------------------------------------------------
(* http.ResponseWriter                                                      *)

JsonType == "application/json; charset=UTF-8"
PlainType == "text/plain; charset=UTF-8"
ErrorType == "text/plain; charset=utf-8"     \* set by http.Error
SniffedType == "text/plain; charset=utf-8"   \* net/http sniffs text when no type is set
StatusOK == 200
StatusTeapot == 418

\* ctype: the Content-Type entry of the header map; status: the status line
\* sent (0: none yet); sentType: the Content-Type that went out with it.
NewWriter == [ctype |-> "", status |-> 0, sentType |-> "", body |-> <<>>]

SetContentType(w, v) == [w EXCEPT !.ctype = v]

\* Only the first WriteHeader takes effect; later ones are superfluous.
WriteHeader(w, code) ==
    IF w.status # 0 THEN w
    ELSE [w EXCEPT !.status = code,
                   !.sentType = IF w.ctype = "" THEN SniffedType ELSE w.ctype]

\* w.Write: sends the 200 status line if none was sent, then the data, unless
\* the connection is broken.
Write(w, chunk, broken) ==
    LET h == WriteHeader(w, StatusOK) IN
    IF broken THEN h ELSE [h EXCEPT !.body = Append(h.body, chunk)]

\* http.Error(w, msg, code)
HttpError(w, msg, code, broken) ==
    Write(WriteHeader(SetContentType(w, ErrorType), code),
          [kind |-> "error", value |-> msg], broken)

\* json.NewEncoder(w).Encode(v): marshal, then one w.Write.
Encode(w, v, broken) == Write(w, [kind |-> "json", value |-> v], broken)

\* The wrappers serveFileTree, serveSource, serveSearchXref: a returned error
\* becomes http.Error(418); a panic is recovered by net/http, which drops the
\* connection without writing anything.
Respond(res, broken) ==
    IF res.err = "none" \/ res.err = "panic" THEN res.w
    ELSE HttpError(res.w, res.err, StatusTeapot, broken)

----------------------------------------------------------------------------
(* query.Parse and regexp.MustCompile, as far as the handlers depend on     *)
(* them: a text with an unbalanced, unescaped parenthesis is rejected.      *)

RECURSIVE ParenDepth(_, _, _)
ParenDepth(s, i, d) ==
    IF d < 0 THEN d
    ELSE IF i > Len(s) THEN d
    ELSE IF s[i] = "\\" THEN ParenDepth(s, i + 2, d)
    ELSE IF s[i] = "(" THEN ParenDepth(s, i + 1, d + 1)
    ELSE IF s[i] = ")" THEN ParenDepth(s, i + 1, d - 1)
    ELSE ParenDepth(s, i + 1, d)

SyntaxOK(s) == ParenDepth(s, 1, 0) = 0

----------------------------------------------------------------------------
(* Requests                                                                 *)

\* r.URL.Query() without any parameter.
NoParams ==
    [top |-> <<>>, ticket |-> <<>>, selection |-> <<>>, casing |-> <<>>,
     mode |-> <<>>]

\* The texts parseTicket is applied to on its own.
TicketTexts == SeqsUpTo({"a", "/", ":"}, MaxTextLen)

----------------------------------------------------------------------------
(* The corpus of the file-tree and source handlers                          *)

RepoR == <<"r">>
RepoRX == <<"r", "x">>          \* contains RepoR as a substring

NameB == <<"b", ".", "t", "x", "t">>
NameAX == <<"a", "/", "x">>
NameCX == <<"c", "/", "x">>
NameDA == <<"d", "/", "a">>
NameDB == <<"d", "/", "b">>
NameDEX == <<"d", "/", "e", "/", "x">>
NameY == <<"y">>
NameD == <<"d">>          \* a file where another branch has the directory d

\* zoekt.FileMatch, the fields the two handlers read.  Content names the
\* file it was read from.
TreeFile(repo, name) ==
    [Repository |-> repo, FileName |-> name, Content |-> <<repo, name>>]

TreeFiles ==
    {TreeFile(RepoR, n) :
        n \in {NameB, NameAX, NameCX, NameDA, NameDB, NameDEX, NameD}}
        \cup {TreeFile(RepoRX, n) : n \in {NameAX, NameY}}

\* zoekt.RepoListEntry: repository name and branch names.
RepoEntries ==
    {[Name |-> RepoR, Branches |-> <<>>],
     [Name |-> RepoR, Branches |-> << <<"m">> >>],
     [Name |-> RepoRX, Branches |-> << <<"m">>, <<"n">> >>]}

\* Values of the "top" parameter: absent, empty, a repository, a repository
\* with a path, a text the query parser rejects, two values.
TopParams ==
    {<<>>, << <<>> >>, <<RepoR>>, << <<"r", ":">> >>, << <<"r", ":", "d">> >>,
     <<RepoRX>>, << <<"r", ":", "d", "/", "e">> >>, << <<"r", ":", "(">> >>,
     << <<"r", ":", "d">>, RepoRX >>}

NoAnswer == [fail |-> "none", repos |-> <<>>, files |-> <<>>, numdocs |-> 0]

----------------------------------------------------------------------------
(* /api/filetree                                                            *)

FileTree(uri, display, isFile, children) ==
    [KytheUri |-> uri, Display |-> display, OnlyGenerated |-> FALSE,
     IsFile |-> isFile, Children |-> children]

\* The comparison without the directories-first rule.
TreeLess_byNameOnly(a, b) == StrLess(a.Display, b.Display)

\* The comparison function given to sort.Slice.
TreeLess(a, b) ==
    IF a.IsFile # b.IsFile THEN b.IsFile ELSE StrLess(a.Display, b.Display)

\* sort.Slice(subtrees, less): insertion after the elements that are not
\* greater.  Nodes that compare equal are equal records, so the order sort.Slice
\* leaves among them cannot be observed.
RECURSIVE InsertTree(_, _)
InsertTree(s, x) ==
    IF s = <<>> THEN <<x>>
    ELSE IF TreeLess(x, s[1]) THEN <<x>> \o s
    ELSE <<s[1]>> \o InsertTree(Tail(s), x)

RECURSIVE SortTree(_)
SortTree(s) ==
    IF s = <<>> THEN <<>>
    ELSE InsertTree(SortTree(SubSeq(s, 1, Len(s) - 1)), s[Len(s)])

\* The loop over result.Repos: one node per repository, or per branch.
RECURSIVE BranchNodes(_, _)
BranchNodes(name, branches) ==
    IF branches = <<>> THEN <<>>
    ELSE LET ticketId == name \o <<"@">> \o branches[1] IN
         <<FileTree(ticketId, ticketId, FALSE, Nil)>>
             \o BranchNodes(name, Tail(branches))

RECURSIVE RepoNodes(_)
RepoNodes(repos) ==
    IF repos = <<>> THEN <<>>
    ELSE LET r == repos[1] IN
         (IF Len(r.Branches) = 0
          THEN <<FileTree(r.Name, r.Name, FALSE, Nil)>>
          ELSE BranchNodes(r.Name, r.Branches))
             \o RepoNodes(Tail(repos))

\* Does t contain s?
IsSubstring(s, t) ==
    \E i \in 1..(Len(t) - Len(s) + 1) : SubSeq(t, i, i + Len(s) - 1) = s

\* The filter left to the backend, which matches substrings.
TreeKeeps_substring(f, topRepo) == IsSubstring(topRepo, f.Repository)

\* The exact-repository filter: zoekt's repository filter matches substrings.
TreeKeeps(f, topRepo) == f.Repository = topRepo

\* prefix: the root path with a slash, empty for the root of the repository.
TreePrefix(topPath) == IF topPath # <<>> THEN topPath \o <<"/">> ELSE <<>>

\* The node with the children of a directory given as known and empty.
TreeNode_emptyChildren(f, topPath) ==
    LET prefix == TreePrefix(topPath)
        relParts == Split(TrimPrefix(f.FileName, prefix), "/")
    IN  FileTree(f.Repository \o <<":">> \o prefix \o relParts[1],
                 relParts[1], Len(relParts) = 1,
                 IF Len(relParts) = 1 THEN Nil ELSE Ptr(<<>>))

\* The node of the first path segment of f below the root path.
TreeNode(f, topPath) ==
    LET prefix == TreePrefix(topPath)
        relative == TrimPrefix(f.FileName, prefix)
        relParts == Split(relative, "/")
        currentPart == relParts[1]
        isFile == Len(relParts) = 1
    IN  FileTree(f.Repository \o <<":">> \o prefix \o currentPart,
                 currentPart, isFile, Nil)

\* The loop without the map seen: one node per file.
RECURSIVE TreeLoop_noSeen(_, _, _, _, _)
TreeLoop_noSeen(files, topRepo, topPath, seen, subtrees) ==
    IF files = <<>> THEN subtrees
    ELSE IF ~TreeKeeps(files[1], topRepo)
    THEN TreeLoop_noSeen(Tail(files), topRepo, topPath, seen, subtrees)
    ELSE TreeLoop_noSeen(Tail(files), topRepo, topPath, seen,
                         Append(subtrees, TreeNode(files[1], topPath)))

\* The loop with a later file of a segment taking the place of its node.
RECURSIVE TreeLoop_lastSeen(_, _, _, _, _)
TreeLoop_lastSeen(files, topRepo, topPath, seen, subtrees) ==
    IF files = <<>> THEN subtrees
    ELSE
        LET f == files[1]
            t == TreeNode(f, topPath)
        IN  IF ~TreeKeeps(f, topRepo)
            THEN TreeLoop_lastSeen(Tail(files), topRepo, topPath, seen, subtrees)
            ELSE IF t.Display \in seen
            THEN TreeLoop_lastSeen(Tail(files), topRepo, topPath, seen,
                     [i \in DOMAIN subtrees |->
                         IF subtrees[i].Display = t.Display THEN t
                         ELSE subtrees[i]])
            ELSE TreeLoop_lastSeen(Tail(files), topRepo, topPath,
                                   seen \cup {t.Display}, Append(subtrees, t))

\* The loop over result.Files (root repository given): one node per first
\* segment not seen before.  seen is the set of keys of the map seen.
RECURSIVE TreeLoop(_, _, _, _, _)
TreeLoop(files, topRepo, topPath, seen, subtrees) ==
    IF files = <<>> THEN subtrees
    ELSE
        LET f == files[1]
            t == TreeNode(f, topPath)
        IN  IF ~TreeKeeps(f, topRepo)
            THEN TreeLoop(Tail(files), topRepo, topPath, seen, subtrees)
            ELSE IF t.Display \in seen
            THEN TreeLoop(Tail(files), topRepo, topPath, seen, subtrees)
            ELSE TreeLoop(Tail(files), topRepo, topPath,
                          seen \cup {t.Display}, Append(subtrees, t))

\* top := tops[0] when the parameter is present, "" otherwise.
TopOf(tops) == IF tops # <<>> THEN tops[1] ELSE <<>>

\* The backend query of the file-tree handler.
TreeQuery(tops) ==
    LET ticket == parseTicket(TopOf(tops)) IN
    <<"r", ":">> \o
    (IF ticket.repo # <<>>
     THEN ticket.repo \o
          (IF ticket.path = <<>>
           THEN <<" ", "f", ":", "^", ".", "*", "$">>
           ELSE <<" ", "f", ":", "^">> \o ticket.path \o <<"/", ".", "*", "$">>)
     ELSE <<>>)

Call(op, rq, opts) == [op |-> op, query |-> rq, opts |-> opts]

Result(e, w, cs) == [err |-> e, w |-> w, calls |-> cs]

\* serveFileTreeErr.  ans is the answer of the backend to the one call made,
\* broken tells whether writing to the client fails.
serveFileTreeErr(tops, ans, broken) ==
    LET ticket == parseTicket(TopOf(tops))
        topRepo == ticket.repo
        topPath == ticket.path
        rq == TreeQuery(tops)
        call == IF topRepo = <<>> THEN Call("List", rq, "none")
                ELSE Call("Search", rq, "defaults")
        subtrees == IF topRepo = <<>> THEN RepoNodes(ans.repos)
                    ELSE TreeLoop(ans.files, topRepo, topPath, {}, <<>>)
        root == FileTree(<<"toplevel">>, <<"wontshow">>, FALSE,
                         Ptr(SortTree(subtrees)))
        w1 == WriteHeader(SetContentType(NewWriter, JsonType), StatusOK)
    IN  IF ~SyntaxOK(rq) THEN Result("query parse", NewWriter, <<>>)
        ELSE IF ans.fail # "none" THEN Result("backend", NewWriter, <<call>>)
        ELSE Result(IF broken THEN "encode" ELSE "none",
                    Encode(w1, root, broken), <<call>>)

----------------------------------------------------------------------------
(* /api/source                                                              *)

\* Values of the "ticket" parameter of /api/source: absent, empty, without a
\* colon, without repository, without path, complete, rejected by the query
\* parser, given twice.
SourceTicketParams ==
    {<<>>, << <<>> >>, <<RepoR>>, << <<":">> \o NameB >>, << <<"r", ":">> >>,
     << formatTicket(RepoR, NameB) >>, << formatTicket(RepoR, NameDA) >>,
     << formatTicket(RepoR, NameAX) >>, << formatTicket(RepoRX, NameY) >>,
     << <<"r", ":", "(">> >>,
     << formatTicket(RepoR, NameB), formatTicket(RepoR, NameDA) >>}

SourceQuery(tick) ==
    <<"r", ":">> \o tick.repo \o <<" ", "f", ":", "^">> \o tick.path \o <<"$">>

\* The loop over result.Files: the first file of exactly the repository.
RECURSIVE FirstOfRepo(_, _)
FirstOfRepo(files, repo) ==
    IF files = <<>> THEN Nil
    ELSE IF files[1].Repository # repo THEN FirstOfRepo(Tail(files), repo)
    ELSE Ptr(files[1])

\* Does the request get as far as the backend search?
SourceSearches(tickets) ==
    /\ Len(tickets) = 1
    /\ complete(parseTicket(tickets[1]))
    /\ SyntaxOK(SourceQuery(parseTicket(tickets[1])))

serveSourceErr(tickets, ans, broken) ==
    IF tickets = <<>> \/ Len(tickets) > 1
    THEN Result("expected ticket parameter", NewWriter, <<>>)
    ELSE
        LET tick == parseTicket(tickets[1])
            rq == SourceQuery(tick)
            call == Call("Search", rq, "whole")
            found == FirstOfRepo(ans.files, tick.repo)
            w1 == WriteHeader(SetContentType(NewWriter, PlainType), StatusOK)
        IN  IF ~complete(tick)
            THEN Result("Expected ticket in repo:path format", NewWriter, <<>>)
            ELSE IF ~SyntaxOK(rq) THEN Result("query parse", NewWriter, <<>>)
            ELSE IF ans.fail # "none" THEN Result("backend", NewWriter, <<call>>)
            ELSE IF found = Nil
            THEN Result("Requested file not in response", NewWriter, <<call>>)
            ELSE Result("none",
                        Write(w1, [kind |-> "bytes", value |-> found[1].Content],
                              broken),
                        <<call>>)

----------------------------------------------------------------------------
(* /api/decor                                                               *)

\* serveDecors: always the empty list of decors.
serveDecors(broken) ==
    LET w1 == WriteHeader(SetContentType(NewWriter, JsonType), StatusOK) IN
    Result(IF broken THEN "encode" ELSE "none",
           Encode(w1, [decors |-> <<>>], broken), <<>>)

----------------------------------------------------------------------------
(* /api/search-xref: building the query                                     *)

\* toEscape with the space left out.
ToEscape_noSpace ==
    {":", "(", ")", "[", "]", "\\", ".", "*", "?", "^", "$", "+", "{", "}",
     ","}

\* The characters of toEscape.
ToEscape ==
    {":", "(", ")", "[", "]", "\\", ".", "*", "?", "^", "$", "+", "{", "}",
     ",", " "}

\* Bytes above 0x7F, each written as one element of a string: the two bytes
\* of the rune U+00E9, a byte that no UTF-8 encoding contains, and the three
\* bytes of U+FFFD, the rune that stands for a byte that does not decode.
ByteC3 == "xC3"
ByteA9 == "xA9"
ByteFF == "xFF"
RuneError == <<"xEF", "xBF", "xBD">>

\* One step of "for _, c := range s": the number of bytes the rune at the
\* front of s takes, and the bytes WriteRune(c) writes for it.
DecodeRune(s) ==
    IF s[1] = ByteC3 /\ Len(s) > 1 /\ s[2] = ByteA9
    THEN [size |-> 2, bytes |-> <<ByteC3, ByteA9>>]
    ELSE IF s[1] \in {ByteC3, ByteA9, ByteFF}
    THEN [size |-> 1, bytes |-> RuneError]
    ELSE [size |-> 1, bytes |-> <<s[1]>>]

RECURSIVE escapeLiteralQuery(_)
escapeLiteralQuery(s) ==
    IF s = <<>> THEN <<>>
    ELSE LET c == DecodeRune(s) IN
         (IF \E i \in DOMAIN c.bytes : c.bytes[i] \in ToEscape
          THEN <<"\\">> ELSE <<>>)
             \o c.bytes \o escapeLiteralQuery(SubSeq(s, c.size + 1, Len(s)))

Str_yes == <<"y", "e", "s">>
Str_no == <<"n", "o">>
Str_auto == <<"a", "u", "t", "o">>
Str_Lax == <<"L", "a", "x">>
Str_Boundary == <<"B", "o", "u", "n", "d", "a", "r", "y">>
Str_Raw == <<"R", "a", "w">>

\* The casing taken from the request unchecked.
CasingOf_unchecked(casings) ==
    IF casings # <<>> THEN casings[1] ELSE Str_auto

\* casing := "auto" unless the first value given is yes, no or auto.
CasingOf(casings) ==
    IF casings # <<>> /\ casings[1] \in {Str_yes, Str_no, Str_auto}
    THEN casings[1] ELSE Str_auto

\* mode := "Lax" unless the first value given is Lax, Boundary or Raw.
ModeOf(modes) ==
    IF modes # <<>> /\ modes[1] \in {Str_Lax, Str_Boundary, Str_Raw}
    THEN modes[1] ELSE Str_Lax

\* The dummy ticket made up when none was supplied.
DummyTicket ==
    <<"n", "o", "s", "u", "c", "h", "r", "e", "p", "o", ":",
      "n", "o", "s", "u", "c", "h", "f", "i", "l", "e">>

TicketsOf(tickets) == IF tickets = <<>> THEN <<DummyTicket>> ELSE tickets

\* The query with the word boundaries put in every mode but Raw.
XrefQuery_alwaysBoundary(selection, casing, mode) ==
    IF mode = Str_Raw THEN selection
    ELSE <<"c", "a", "s", "e", ":">> \o casing \o <<" ", "\\", "b">>
             \o escapeLiteralQuery(selection) \o <<"\\", "b">>

\* rq, the query text sent to the backend.
XrefQuery(selection, casing, mode) ==
    IF mode = Str_Raw THEN selection
    ELSE LET escaped == escapeLiteralQuery(selection)
             moddedSelection ==
                 IF mode = Str_Boundary
                 THEN <<"\\", "b">> \o escaped \o <<"\\", "b">>
                 ELSE escaped
         IN  <<"c", "a", "s", "e", ":">> \o casing \o <<" ">> \o moddedSelection

----------------------------------------------------------------------------
(* /api/search-xref: appendSearches                                         *)

NumFiles == 500            \* num: the number of files to return
ManyDocs == 10000          \* above this estimate the match counts are limited
ClipLength == 250          \* lines longer than this are clipped
ClipKeep == 30             \* bytes kept at each end of a clipped line

ClipMarker ==
    <<".", ".", ".", "l", "i", "n", "e", " ", "t", "o", "o", " ", "l", "o", "n",
      "g", ",", " ", "c", "l", "i", "p", "p", "e", "d", ".", ".", ".">>

\* The clipping that sets in at ClipLength bytes already.
ClipLine_fromClipLength(line) ==
    IF Len(line) >= ClipLength
    THEN SubSeq(line, 1, ClipKeep) \o ClipMarker
             \o SubSeq(line, Len(line) - ClipKeep + 1, Len(line))
    ELSE line

ClipLine(line) ==
    IF Len(line) > ClipLength
    THEN SubSeq(line, 1, ClipKeep) \o ClipMarker
             \o SubSeq(line, Len(line) - ClipKeep + 1, Len(line))
    ELSE line

\* The first search issued as a real search too.
EstimateOpts_real == [EstimateDocCount |-> FALSE]

\* The options of the count-only search and of the real search.
EstimateOpts == [EstimateDocCount |-> TRUE]

SearchOpts(numdocs) ==
    IF numdocs > ManyDocs
    THEN [EstimateDocCount |-> FALSE,
          ShardMaxMatchCount |->
              NumFiles * 5 + (5 * NumFiles) \div (numdocs \div 1000),
          ShardMaxImportantMatch |->
              NumFiles \div 20 + NumFiles \div (numdocs \div 500),
          TotalMaxMatchCount |-> 0,          \* not set on this branch
          TotalMaxImportantMatch |-> 0,      \* not set on this branch
          MaxDocDisplayCount |-> NumFiles]
    ELSE LET n == numdocs + NumFiles * 100 IN
         [EstimateDocCount |-> FALSE,
          ShardMaxMatchCount |-> n,
          ShardMaxImportantMatch |-> n,
          TotalMaxMatchCount |-> n,
          TotalMaxImportantMatch |-> n,
          MaxDocDisplayCount |-> NumFiles]

Point(line, ch) == [Line |-> line, Ch |-> ch]

Range(from, to) == [From |-> from, To |-> to]

\* The snippet that takes the last fragment of the line for the occurrence.
SnippetOf_lastFragment(l) ==
    LET lastFrag == l.LineFragments[Len(l.LineFragments)]
        lineNum == l.LineNumber - 1
    IN  [Text |-> ClipLine(l.Line),
         FullSpan |-> Range(Point(lineNum, 0),
                            Point(lineNum, l.LineEnd - l.LineStart)),
         OccurrenceSpan |->
             Range(Point(lineNum, lastFrag.LineOffset),
                   Point(lineNum, lastFrag.LineOffset + lastFrag.MatchLength))]

\* The snippet of one line match: the first fragment only.
SnippetOf(l) ==
    LET firstFrag == l.LineFragments[1]
        lineNum == l.LineNumber - 1
    IN  [Text |-> ClipLine(l.Line),
         FullSpan |-> Range(Point(lineNum, 0),
                            Point(lineNum, l.LineEnd - l.LineStart)),
         OccurrenceSpan |->
             Range(Point(lineNum, firstFrag.LineOffset),
                   Point(lineNum, firstFrag.LineOffset + firstFrag.MatchLength))]

RECURSIVE SnippetsOf(_)
SnippetsOf(lineMatches) ==
    IF lineMatches = <<>> THEN <<>>
    ELSE <<SnippetOf(lineMatches[1])>> \o SnippetsOf(Tail(lineMatches))

\* What sha1 is fed: every l.Line in turn, nothing between them.
RECURSIVE HashInput(_)
HashInput(lineMatches) ==
    IF lineMatches = <<>> THEN <<>>
    ELSE lineMatches[1].Line \o HashInput(Tail(lineMatches))

\* sha1, taken as collision-free: the digest stands for the bytes it was fed.
Sha1(bytes) == bytes

DisplayedFile(ticket) == [FileTicket |-> ticket, DisplayName |-> ticket]

\* The record with the file checksum hashed in front of the lines.
SiteOf_hashWithChecksum(f) ==
    [containingFile |-> DisplayedFile(formatTicket(f.Repository, f.FileName)),
     snippets |-> SnippetsOf(f.LineMatches),
     fileChecksum |-> f.Checksum,
     snippetsHash |-> Sha1(f.Checksum \o HashInput(f.LineMatches))]

\* The record with the file name hashed in front of the lines.
SiteOf_hashWithName(f) ==
    [containingFile |-> DisplayedFile(formatTicket(f.Repository, f.FileName)),
     snippets |-> SnippetsOf(f.LineMatches),
     fileChecksum |-> f.Checksum,
     snippetsHash |-> Sha1(f.FileName \o HashInput(f.LineMatches))]

\* The fileSites record appended for one file of the result.
SiteOf(f) ==
    [containingFile |-> DisplayedFile(formatTicket(f.Repository, f.FileName)),
     snippets |-> SnippetsOf(f.LineMatches),
     fileChecksum |-> f.Checksum,
     snippetsHash |-> Sha1(HashInput(f.LineMatches))]

RECURSIVE SitesOf(_)
SitesOf(files) ==
    IF files = <<>> THEN <<>>
    ELSE <<SiteOf(files[1])>> \o SitesOf(Tail(files))

----------------------------------------------------------------------------
(* /api/search-xref: relevance order                                        *)

\* The comparison that looks at the repository only.
RelevanceLess_repoOnly(a, b, queryTicket) ==
    LET ti == parseTicket(a.containingFile.FileTicket)
        tj == parseTicket(b.containingFile.FileTicket)
    IN  ti.repo # tj.repo /\ ti.repo = queryTicket.repo

\* The comparison function given to sort.SliceStable.
RelevanceLess(a, b, queryTicket) ==
    LET ti == parseTicket(a.containingFile.FileTicket)
        tj == parseTicket(b.containingFile.FileTicket)
    IN  IF ti.repo # tj.repo /\ ti.repo = queryTicket.repo THEN TRUE
        ELSE IF ti.repo # tj.repo /\ tj.repo = queryTicket.repo THEN FALSE
        ELSE IF ti.repo = queryTicket.repo /\ ti.path # tj.path
                /\ ti.path = queryTicket.path THEN TRUE
        ELSE FALSE

\* sort.SliceStable: insertion after the elements that are not greater, so
\* that sites comparing equal keep their order.
RECURSIVE InsertSite(_, _, _)
InsertSite(s, x, queryTicket) ==
    IF s = <<>> THEN <<x>>
    ELSE IF RelevanceLess(x, s[1], queryTicket) THEN <<x>> \o s
    ELSE <<s[1]>> \o InsertSite(Tail(s), x, queryTicket)

\* The sites left in the order of the backend.
SortSites_asReturned(ss, queryTicket) == ss

RECURSIVE SortSites(_, _)
SortSites(s, queryTicket) ==
    IF s = <<>> THEN <<>>
    ELSE InsertSite(SortSites(SubSeq(s, 1, Len(s) - 1), queryTicket),
                    s[Len(s)], queryTicket)

----------------------------------------------------------------------------
(* /api/search-xref: the declaration pattern                                *)

\* The text given to regexp.MustCompile.
DeclPattern(selection) ==
    <<"^", "(", "(", "^">> \o selection
        \o <<"\\", "s", "*", "(", "$", "|", ":", ":", ")", ")", "|",
             "(", "\\", "s", "+", "[", "{", ",", "]", "\\", "s", "*">>
        \o selection
        \o <<"\\", "s", "*", ":", ":", ")", "|",
             "(", "d", "a", "t", "a", "\\", "s", "+">>
        \o selection
        \o <<"\\", "b", ")", "|",
             "(", "\\", "s", "+", "[", "=", "|", "]", "\\", "s", "*">>
        \o selection \o <<")", ")">>

\* The first position at or after i that holds no blank.
RECURSIVE SkipBlanks(_, _)
SkipBlanks(text, i) ==
    IF i <= Len(text) /\ text[i] = " " THEN SkipBlanks(text, i + 1) ELSE i

\* Does text hold the literal lit at position i?
At(text, i, lit) ==
    i + Len(lit) - 1 <= Len(text) /\ SubSeq(text, i, i + Len(lit) - 1) = lit

WordChars ==
    {"a", "b", "c", "d", "e", "f", "m", "n", "r", "t", "x", "y", "1", "2", "_"}

\* re.MatchString(text) for a selection without regular-expression operators:
\* the four alternatives of the pattern, each anchored at the start.
DeclMatch(selection, text) ==
    LET n == Len(selection)
        afterSel == SkipBlanks(text, n + 1)
        lead == SkipBlanks(text, 1)
        afterMark == SkipBlanks(text, lead + 1)
        afterData == SkipBlanks(text, 5)
    IN  \/ /\ At(text, 1, selection)
           /\ afterSel = Len(text) + 1 \/ At(text, afterSel, <<":", ":">>)
        \/ /\ lead > 1
           /\ lead <= Len(text) /\ text[lead] \in {"{", ","}
           /\ At(text, afterMark, selection)
           /\ At(text, SkipBlanks(text, afterMark + n), <<":", ":">>)
        \/ /\ At(text, 1, <<"d", "a", "t", "a">>)
           /\ afterData > 5
           /\ At(text, afterData, selection)
           /\ afterData + n > Len(text) \/ text[afterData + n] \notin WordChars
        \/ /\ lead > 1
           /\ lead <= Len(text) /\ text[lead] \in {"=", "|"}
           /\ At(text, afterMark, selection)

\* The declaration entries that keep all the snippets of the site.
RECURSIVE DeclsOfSite_wholeSite(_, _, _)
DeclsOfSite_wholeSite(fs, snippets, selection) ==
    IF snippets = <<>> THEN <<>>
    ELSE (IF DeclMatch(selection, snippets[1].Text) THEN <<fs>> ELSE <<>>)
             \o DeclsOfSite_wholeSite(fs, Tail(snippets), selection)

\* The declaration entries of one site: a copy of the site for each matching
\* snippet, keeping that snippet only.
RECURSIVE DeclsOfSite(_, _, _)
DeclsOfSite(fs, snippets, selection) ==
    IF snippets = <<>> THEN <<>>
    ELSE (IF DeclMatch(selection, snippets[1].Text)
          THEN <<[fs EXCEPT !.snippets = <<snippets[1]>>]>>
          ELSE <<>>)
             \o DeclsOfSite(fs, Tail(snippets), selection)

RECURSIVE DeclSites(_, _)
DeclSites(manyFileSites, selection) ==
    IF manyFileSites = <<>> THEN <<>>
    ELSE DeclsOfSite(manyFileSites[1], manyFileSites[1].snippets, selection)
             \o DeclSites(Tail(manyFileSites), selection)

----------------------------------------------------------------------------
(* /api/search-xref: groupSites                                             *)

\* The iteration that records every file as the one seen for its checksum, so
\* that a duplicate points at the latest file, not at the first.
GroupStep_lastSeen(acc, fs) ==
    LET isDup == fs.fileChecksum \in DOMAIN acc.seenTickets
        dupTick == IF isDup THEN Ptr(acc.seenTickets[fs.fileChecksum]) ELSE Nil
        h == fs.snippetsHash
        s == [ContainingFile |-> fs.containingFile,
              IsDupOf |-> dupTick,
              Snippets |-> fs.snippets]
        known == h \in DOMAIN acc.contentGroups
    IN  [seenTickets |->
             (fs.fileChecksum :> fs.containingFile) @@ acc.seenTickets,
         contentGroups |->
             IF known THEN [acc.contentGroups EXCEPT ![h] = Append(@, s)]
             ELSE (h :> <<s>>) @@ acc.contentGroups,
         contentGroupOrder |->
             IF known THEN acc.contentGroupOrder
             ELSE Append(acc.contentGroupOrder, h),
         snipCnt |-> acc.snipCnt + Len(fs.snippets),
         fileCnt |-> acc.fileCnt + 1,
         fileDupCnt |-> acc.fileDupCnt + (IF isDup THEN 1 ELSE 0),
         matchDupCnt |-> acc.matchDupCnt + (IF known THEN 1 ELSE 0)]

\* The iteration that enters the site into seenTickets before looking it up.
GroupStep_seesItself(acc, fs) ==
    GroupStep_lastSeen(
        [acc EXCEPT !.seenTickets =
                        (fs.fileChecksum :> fs.containingFile) @@ @],
        fs)

\* One iteration of the loop of groupSites, for the site fs.
\* acc.seenTickets maps a file checksum to the first file seen with it,
\* acc.contentGroups maps a snippets hash to its group.
GroupStep(acc, fs) ==
    LET isDup == fs.fileChecksum \in DOMAIN acc.seenTickets
        dupTick == IF isDup THEN Ptr(acc.seenTickets[fs.fileChecksum]) ELSE Nil
        h == fs.snippetsHash
        s == [ContainingFile |-> fs.containingFile,
              IsDupOf |-> dupTick,
              Snippets |-> fs.snippets]
        known == h \in DOMAIN acc.contentGroups
    IN  [seenTickets |->
             IF isDup THEN acc.seenTickets
             ELSE (fs.fileChecksum :> fs.containingFile) @@ acc.seenTickets,
         contentGroups |->
             IF known THEN [acc.contentGroups EXCEPT ![h] = Append(@, s)]
             ELSE (h :> <<s>>) @@ acc.contentGroups,
         contentGroupOrder |->
             IF known THEN acc.contentGroupOrder
             ELSE Append(acc.contentGroupOrder, h),
         snipCnt |-> acc.snipCnt + Len(fs.snippets),
         fileCnt |-> acc.fileCnt + 1,
         fileDupCnt |-> acc.fileDupCnt + (IF isDup THEN 1 ELSE 0),
         matchDupCnt |-> acc.matchDupCnt + (IF known THEN 1 ELSE 0)]

\* The loop that goes through the sites from the last to the first.
RECURSIVE GroupLoop_fromLast(_, _, _)
GroupLoop_fromLast(fileSites, i, acc) ==
    IF i > Len(fileSites) THEN acc
    ELSE GroupLoop_fromLast(fileSites, i + 1,
             GroupStep(acc, fileSites[Len(fileSites) + 1 - i]))

\* The loop of groupSites over the sites from position i on.
RECURSIVE GroupLoop(_, _, _)
GroupLoop(fileSites, i, acc) ==
    IF i > Len(fileSites) THEN acc
    ELSE GroupLoop(fileSites, i + 1, GroupStep(acc, fileSites[i]))

EmptyMap == [k \in {} |-> <<>>]

\* groupSites returning its file count where the snippet count belongs.
groupSites_filesAsLines(fileSites) ==
    LET acc == GroupLoop(fileSites, 1,
                   [seenTickets |-> EmptyMap, contentGroups |-> EmptyMap,
                    contentGroupOrder |-> <<>>, snipCnt |-> 0, fileCnt |-> 0,
                    fileDupCnt |-> 0, matchDupCnt |-> 0])
    IN  [snipCnt |-> acc.fileCnt,
         fileCnt |-> acc.fileCnt,
         fileDupCnt |-> acc.fileDupCnt,
         matchDupCnt |-> acc.matchDupCnt,
         groups |-> [g \in 1..Len(acc.contentGroupOrder) |->
                        [Files |-> acc.contentGroups[acc.contentGroupOrder[g]]]]]

groupSites(fileSites) ==
    LET acc == GroupLoop(fileSites, 1,
                   [seenTickets |-> EmptyMap, contentGroups |-> EmptyMap,
                    contentGroupOrder |-> <<>>, snipCnt |-> 0, fileCnt |-> 0,
                    fileDupCnt |-> 0, matchDupCnt |-> 0])
    IN  [snipCnt |-> acc.snipCnt,
         fileCnt |-> acc.fileCnt,
         fileDupCnt |-> acc.fileDupCnt,
         matchDupCnt |-> acc.matchDupCnt,
         groups |-> [g \in 1..Len(acc.contentGroupOrder) |->
                        [Files |-> acc.contentGroups[acc.contentGroupOrder[g]]]]]

----------------------------------------------------------------------------
(* /api/search-xref: the handler                                            *)

XResult(e, w, cs, ss, qt) ==
    [err |-> e, w |-> w, calls |-> cs, sites |-> ss, decls |-> <<>>,
     queryTicket |-> qt]

\* serveSearchXrefErr with appendSearches inlined.  ans is what the backend
\* answers: which call fails if any, the estimated document count, the files.
serveSearchXrefErr(req, ans, broken) ==
    IF req.selection = <<>> \/ Len(req.selection) > 1
    THEN XResult("expected selection parameter", NewWriter, <<>>, <<>>, NoTicket)
    ELSE IF Len(TicketsOf(req.ticket)) > 1
    THEN XResult("expected single ticket parameter", NewWriter, <<>>, <<>>,
                 NoTicket)
    ELSE
        LET selection == req.selection[1]
            queryTicket == parseTicket(TicketsOf(req.ticket)[1])
            rq == XrefQuery(selection, CasingOf(req.casing), ModeOf(req.mode))
            estimate == Call("Search", rq, EstimateOpts)
            search == Call("Search", rq, SearchOpts(ans.numdocs))
            manyFileSites == SortSites(SitesOf(ans.files), queryTicket)
            declSites == DeclSites(manyFileSites, selection)
            rs == groupSites(manyFileSites)
            ds == groupSites(declSites)
            reply == [refs |-> rs.groups,
                      refCounts |-> [rcLines |-> rs.snipCnt,
                                     rcFiles |-> rs.fileCnt,
                                     rcDupFiles |-> rs.fileDupCnt,
                                     rcDupMatches |-> rs.matchDupCnt],
                      calls |-> <<>>,
                      callCount |-> 0,
                      definitions |-> <<>>,
                      declarations |-> ds.groups]
        IN  IF ~SyntaxOK(rq)
            THEN XResult("query parse", NewWriter, <<>>, <<>>, queryTicket)
            ELSE IF ans.fail = "estimate"
            THEN XResult("backend", NewWriter, <<estimate>>, <<>>, queryTicket)
            ELSE IF ans.fail = "search"
            THEN XResult("backend", NewWriter, <<estimate, search>>, <<>>,
                         queryTicket)
            ELSE IF ~SyntaxOK(DeclPattern(selection))
            THEN XResult("panic", NewWriter, <<estimate, search>>,
                         manyFileSites, queryTicket)
            ELSE [XResult(IF broken THEN "encode" ELSE "none",
                          Encode(NewWriter, reply, broken),
                          <<estimate, search>>, manyFileSites, queryTicket)
                     EXCEPT !.decls = declSites]

----------------------------------------------------------------------------
(* What the backend may answer                                              *)

Failed(call) == [fail |-> call, repos |-> <<>>, files |-> <<>>, numdocs |-> 0]

Repos(rs) == [fail |-> "none", repos |-> rs, files |-> <<>>, numdocs |-> 0]

Files(fs) == [fail |-> "none", repos |-> <<>>, files |-> fs, numdocs |-> 0]

ListAnswers == {Failed("List")} \cup {Repos(rs) : rs \in SeqsUpTo(RepoEntries, MaxRepos)}

TreeSearchAnswers ==
    {Failed("Search")} \cup {Files(fs) : fs \in SeqsUpTo(TreeFiles, MaxTreeFiles)}

\* The answers to the call the file-tree handler makes for this request.
TreeAnswers(tops) ==
    IF ~SyntaxOK(TreeQuery(tops)) THEN {NoAnswer}
    ELSE IF parseTicket(TopOf(tops)).repo = <<>> THEN ListAnswers
    ELSE TreeSearchAnswers

\* The files the backend holds, in the order it returns them.
CorpusFiles ==
    <<TreeFile(RepoR, NameB), TreeFile(RepoR, NameAX), TreeFile(RepoR, NameCX),
      TreeFile(RepoR, NameDA), TreeFile(RepoR, NameDB),
      TreeFile(RepoR, NameDEX), TreeFile(RepoR, NameD),
      TreeFile(RepoRX, NameAX), TreeFile(RepoRX, NameY)>>

\* The answer of the backend to the search of the file-tree handler for the
\* root topRepo:topPath: the files of the repositories whose name contains
\* topRepo, below the directory topPath.
CorpusSearch(topRepo, topPath) ==
    LET Matches(f) ==
            /\ IsSubstring(topRepo, f.Repository)
            /\ HasPrefix(f.FileName, TreePrefix(topPath))
    IN  Files(SelectSeq(CorpusFiles, Matches))

\* The answers to the call the source handler makes for this request.
SourceAnswers(tickets) ==
    IF SourceSearches(tickets) THEN TreeSearchAnswers ELSE {NoAnswer}

----------------------------------------------------------------------------
(* The corpus and the requests of the cross-reference handler               *)

Repo1 == <<"r", "1">>
Repo2 == <<"r", "2">>
PathA == <<"a">>
PathB == <<"b">>

Frag(offset, length) == [LineOffset |-> offset, MatchLength |-> length]

\* zoekt.LineMatch: the raw line, its 1-based number, the byte offset of its
\* start in the file, the fragments that matched.
LineMatch(line, number, start, frags) ==
    [Line |-> line, LineNumber |-> number, LineStart |-> start,
     LineEnd |-> start + Len(line), LineFragments |-> frags]

LinesF == << LineMatch(<<"f">>, 1, 0, <<Frag(0, 1)>>) >>
LinesFLater == << LineMatch(<<"f">>, 7, 20, <<Frag(0, 1)>>) >>
LinesFFThenF ==
    << LineMatch(<<"f", "f">>, 1, 0, <<Frag(0, 1), Frag(1, 1)>>),
       LineMatch(<<"f">>, 2, 3, <<Frag(0, 1)>>) >>
LinesFThenFF ==
    << LineMatch(<<"f">>, 1, 0, <<Frag(0, 1)>>),
       LineMatch(<<"f", "f">>, 2, 2, <<Frag(0, 1), Frag(1, 1)>>) >>
LinesCall == << LineMatch(<<"x", " ", "f">>, 3, 10, <<Frag(2, 1)>>) >>
LinesData ==
    << LineMatch(<<"d", "a", "t", "a", " ", "f">>, 2, 5, <<Frag(5, 1)>>) >>

\* zoekt.FileMatch, the fields the cross-reference handler reads.
XrefFile(repo, name, checksum, lineMatches) ==
    [Repository |-> repo, FileName |-> name, Checksum |-> checksum,
     LineMatches |-> lineMatches]

XrefFiles ==
    {XrefFile(Repo1, PathA, <<"k", "1">>, LinesF),
     XrefFile(Repo1, PathB, <<"k", "1">>, LinesF),
     XrefFile(Repo2, PathA, <<"k", "2">>, LinesFLater),
     XrefFile(Repo2, PathB, <<"k", "3">>, LinesFFThenF),
     XrefFile(Repo1, PathB, <<"k", "4">>, LinesFThenFF),
     XrefFile(Repo2, PathB, <<"k", "1">>, LinesCall),
     XrefFile(Repo2, PathA, <<"k", "2">>, LinesData)}

Sel_f == <<"f">>
Sel_call == <<"f", "(">>

\* Requests that differ in the ticket only; the backend answers with any list
\* of files.
GroupingRequests ==
    {[NoParams EXCEPT !.selection = <<Sel_f>>, !.ticket = t] :
        t \in {<<>>, <<formatTicket(Repo1, PathA)>>,
               <<formatTicket(Repo2, PathB)>>, <<Repo1>>}}

GroupingAnswers ==
    {[fail |-> "none", repos |-> <<>>, files |-> fs, numdocs |-> 100] :
        fs \in SeqsUpTo(XrefFiles, MaxXrefFiles)}

\* A repository with the name the dummy ticket uses.
NoSuchRepo == <<"n", "o", "s", "u", "c", "h", "r", "e", "p", "o">>

\* A request without ticket, answered with files of two repositories, one of
\* them NoSuchRepo.
SentinelRequests == {[NoParams EXCEPT !.selection = <<Sel_f>>]}

SentinelAnswers ==
    {[fail |-> "none", repos |-> <<>>, files |-> fs, numdocs |-> 100] :
        fs \in SeqsUpTo({XrefFile(Repo1, PathA, <<"k", "1">>, LinesF),
                         XrefFile(NoSuchRepo, PathB, <<"k", "5">>, LinesCall)},
                        MaxXrefFiles)}

\* A line of n bytes with the selection f as its byte 101: a..a in front,
\* m..m after it, z..z as its last 30 bytes.
LongLine(n) ==
    [i \in 1..n |-> IF i = 101 THEN "f" ELSE IF i <= 30 THEN "a"
                    ELSE IF i > n - 30 THEN "z" ELSE "m"]

LinesLong(n) == << LineMatch(LongLine(n), 4, 40, <<Frag(100, 1)>>) >>

\* A request answered with files whose matched line has 251 or 250 bytes.
ClipRequests == {[NoParams EXCEPT !.selection = <<Sel_f>>]}

ClipAnswers ==
    {[fail |-> "none", repos |-> <<>>, files |-> fs, numdocs |-> 100] :
        fs \in SeqsUpTo({XrefFile(Repo1, PathA, <<"k", "6">>, LinesLong(251)),
                         XrefFile(Repo2, PathA, <<"k", "7">>, LinesLong(250))},
                        MaxXrefFiles)}

\* Two declarations of f in one file.
LinesFAndData ==
    << LineMatch(<<"f">>, 1, 0, <<Frag(0, 1)>>),
       LineMatch(<<"d", "a", "t", "a", " ", "f">>, 2, 2, <<Frag(5, 1)>>) >>

\* A request answered with files that declare f once and twice.
DeclRequests == {[NoParams EXCEPT !.selection = <<Sel_f>>]}

DeclAnswers ==
    {[fail |-> "none", repos |-> <<>>, files |-> fs, numdocs |-> 100] :
        fs \in SeqsUpTo({XrefFile(Repo1, PathA, <<"k", "1">>, LinesF),
                         XrefFile(Repo2, PathB, <<"k", "8">>, LinesFAndData)},
                        MaxXrefFiles)}

\* Requests over all parameters; the backend fails or answers with one file.
QueryRequests ==
    [top : {<<>>},
     ticket : {<<>>, <<formatTicket(Repo1, PathA)>>,
               <<formatTicket(Repo1, PathA), formatTicket(Repo2, PathB)>>},
     selection : {<<>>, <<Sel_f>>, <<Sel_call>>, <<Sel_f, Sel_call>>},
     casing : {<<>>, <<Str_yes>>, <<Str_no>>, <<Str_auto>>, <<<<"Y">>>>},
     mode : {<<>>, <<Str_Lax>>, <<Str_Boundary>>, <<Str_Raw>>, <<<<"r", "a", "w">>>>}]

QueryAnswers ==
    {Failed("estimate"), Failed("search")}
        \cup {[fail |-> "none", repos |-> <<>>, files |-> fs, numdocs |-> n] :
                 fs \in {<<>>, <<XrefFile(Repo1, PathA, <<"k", "1">>, LinesF)>>},
                 n \in {100, 20000}}

\* Does the request get as far as the backend?
XrefSearches(req) ==
    /\ Len(req.selection) = 1
    /\ Len(req.ticket) <= 1
    /\ SyntaxOK(XrefQuery(req.selection[1], CasingOf(req.casing),
                          ModeOf(req.mode)))

\* The texts escapeLiteralQuery is applied to on its own: every character of
\* toEscape, some others, and the texts over a letter, two characters of
\* toEscape and bytes above 0x7F.
EscapeTexts ==
    {<<c>> : c \in {":", "(", ")", "[", "]", "\\", ".", "*", "?", "^", "$",
                    "+", "{", "}", ",", " ", "a", "f", "/", "-", "|", "\"",
                    ByteFF}}
        \cup SeqsUpTo({"a", ".", "\\", ByteC3, ByteA9}, MaxTextLen)

\* Request, answers of the backend, whether writing to the client fails.
XrefInputs ==
    (GroupingRequests \X GroupingAnswers \X {FALSE})
        \cup (SentinelRequests \X SentinelAnswers \X {FALSE})
        \cup (ClipRequests \X ClipAnswers \X {FALSE})
        \cup (DeclRequests \X DeclAnswers \X {FALSE})
        \cup ({req \in QueryRequests : XrefSearches(req)}
                  \X QueryAnswers \X BOOLEAN)
        \cup ({req \in QueryRequests : ~XrefSearches(req)}
                  \X {NoAnswer} \X {FALSE})

----------------------------------------------------------------------------
(* The server                                                               *)

Init ==
    /\ pc = "idle"
    /\ handler = "none"
    /\ request = NoParams
    /\ reqTicket = NoTicket
    /\ backend = NoAnswer
    /\ calls = <<>>
    /\ sites = <<>>
    /\ decls = <<>>
    /\ err = "none"
    /\ response = NewWriter
    /\ ret = <<>>
    /\ expanded = Nil

\* mux.HandleFunc("/api/filetree", s.serveFileTree)
ServeFileTree ==
    /\ pc = "idle"
    /\ \E tops \in TopParams, broken \in BOOLEAN :
         \E ans \in TreeAnswers(tops) :
           LET res == serveFileTreeErr(tops, ans, broken) IN
           /\ pc' = "done"
           /\ handler' = "filetree"
           /\ request' = [NoParams EXCEPT !.top = tops]
           /\ reqTicket' = parseTicket(TopOf(tops))
           /\ backend' = ans
           /\ calls' = res.calls
           /\ sites' = <<>>
           /\ decls' = <<>>
           /\ err' = res.err
           /\ response' = Respond(res, broken)
           /\ ret' = <<>>
           /\ expanded' = Nil

\* mux.HandleFunc("/api/source", s.serveSource)
ServeSource ==
    /\ pc = "idle"
    /\ \E tickets \in SourceTicketParams, broken \in BOOLEAN :
         \E ans \in SourceAnswers(tickets) :
           LET res == serveSourceErr(tickets, ans, broken) IN
           /\ pc' = "done"
           /\ handler' = "source"
           /\ request' = [NoParams EXCEPT !.ticket = tickets]
           /\ reqTicket' = IF Len(tickets) = 1 THEN parseTicket(tickets[1])
                           ELSE NoTicket
           /\ backend' = ans
           /\ calls' = res.calls
           /\ sites' = <<>>
           /\ decls' = <<>>
           /\ err' = res.err
           /\ response' = Respond(res, broken)
           /\ ret' = <<>>
           /\ expanded' = Nil

\* mux.HandleFunc("/api/decor", s.serveDecors)
ServeDecors ==
    /\ pc = "idle"
    /\ \E broken \in BOOLEAN :
         LET res == serveDecors(broken) IN
         /\ pc' = "done"
         /\ handler' = "decor"
         /\ request' = NoParams
         /\ reqTicket' = NoTicket
         /\ backend' = NoAnswer
         /\ calls' = res.calls
         /\ sites' = <<>>
         /\ decls' = <<>>
         /\ err' = res.err
         /\ response' = Respond(res, broken)
         /\ ret' = <<>>
         /\ expanded' = Nil

\* mux.HandleFunc("/api/search-xref", s.serveSearchXref)
ServeSearchXref ==
    /\ pc = "idle"
    /\ \E input \in XrefInputs :
         LET res == serveSearchXrefErr(input[1], input[2], input[3]) IN
         /\ pc' = "done"
         /\ handler' = "xref"
         /\ request' = input[1]
         /\ reqTicket' = res.queryTicket
         /\ backend' = input[2]
         /\ calls' = res.calls
         /\ sites' = res.sites
         /\ decls' = res.decls
         /\ err' = res.err
         /\ response' = Respond(res, input[3])
         /\ ret' = <<>>
         /\ expanded' = Nil

\* The repository a node of the response at hand stands for: the root
\* repository, or in the listing of repositories the one the node was made
\* for.
RepoOfNode(node) ==
    IF reqTicket.repo # <<>> THEN reqTicket.repo
    ELSE LET e == CHOOSE r \in {backend.repos[k] : k \in DOMAIN backend.repos} :
                      \/ node.KytheUri = r.Name
                      \/ \E b \in DOMAIN r.Branches :
                             node.KytheUri = r.Name \o <<"@">> \o r.Branches[b]
         IN  e.Name

\* /api/filetree with top = the id of a node of the response at hand that is
\* no file, answered by the backend from its files.
ExpandNode ==
    /\ pc = "done"
    /\ handler = "filetree"
    /\ err = "none"
    /\ \E i \in DOMAIN response.body[1].value.Children[1] :
         LET node == response.body[1].value.Children[1][i]
             tops == <<node.KytheUri>>
             ticket == parseTicket(node.KytheUri)
             ans == IF SyntaxOK(TreeQuery(tops))
                    THEN CorpusSearch(ticket.repo, ticket.path)
                    ELSE NoAnswer
             res == serveFileTreeErr(tops, ans, FALSE)
         IN  /\ ~node.IsFile
             /\ pc' = "done"
             /\ handler' = "filetree"
             /\ request' = [NoParams EXCEPT !.top = tops]
             /\ reqTicket' = ticket
             /\ backend' = ans
             /\ calls' = res.calls
             /\ sites' = <<>>
             /\ decls' = <<>>
             /\ err' = res.err
             /\ response' = Respond(res, FALSE)
             /\ ret' = <<>>
             /\ expanded' =
                    Ptr([id |-> node.KytheUri, repo |-> RepoOfNode(node)])

\* parseTicket applied to a text on its own, then complete() to its result.
ParseTicket ==
    /\ pc = "idle"
    /\ \E text \in TicketTexts :
         /\ pc' = "done"
         /\ handler' = "parseTicket"
         /\ request' = [NoParams EXCEPT !.ticket = <<text>>]
         /\ reqTicket' = parseTicket(text)
         /\ ret' = complete(parseTicket(text))
         /\ UNCHANGED
              <<backend, calls, sites, decls, err, response, expanded>>

\* escapeLiteralQuery applied to a text on its own.
EscapeLiteralQuery ==
    /\ pc = "idle"
    /\ \E text \in EscapeTexts :
         /\ pc' = "done"
         /\ handler' = "escapeLiteralQuery"
         /\ request' = [NoParams EXCEPT !.selection = <<text>>]
         /\ ret' = escapeLiteralQuery(text)
         /\ UNCHANGED <<reqTicket, backend, calls, sites, decls, err, response,
                        expanded>>

\* The handler has returned; everything it built is request-local.
Finish ==
    /\ pc = "done"
    /\ pc' = "idle"
    /\ handler' = "none"
    /\ request' = NoParams
    /\ reqTicket' = NoTicket
    /\ backend' = NoAnswer
    /\ calls' = <<>>
    /\ sites' = <<>>
    /\ decls' = <<>>
    /\ err' = "none"
    /\ response' = NewWriter
    /\ ret' = <<>>
    /\ expanded' = Nil

NextTree == ServeFileTree \/ Finish

NextSource == ServeSource \/ Finish

NextXref == ServeSearchXref \/ Finish

NextBrowse == ServeFileTree \/ ServeSource \/ Finish

NextTicket == ParseTicket \/ Finish

NextEscape == EscapeLiteralQuery \/ Finish

NextExpand == ServeFileTree \/ ExpandNode \/ Finish

Next == ServeFileTree \/ ServeSource \/ ServeDecors \/ ServeSearchXref \/ Finish

SpecTree == Init /\ [][NextTree]_vars

SpecSource == Init /\ [][NextSource]_vars

SpecXref == Init /\ [][NextXref]_vars

SpecBrowse == Init /\ [][NextBrowse]_vars

SpecTicket == Init /\ [][NextTicket]_vars

SpecEscape == Init /\ [][NextEscape]_vars

SpecExpand == Init /\ [][NextExpand]_vars

Spec == Init /\ [][Next]_vars

----------------------------------------------------------------------------
(* Properties                                                               *)

Done(h) == pc = "done" /\ handler = h

\* The value written as the body of a successful response.
Body == response.body[1].value

\* The children of the synthetic root of a file-tree response.
Children == Body.Children[1]

\* The text before the first slash.
FirstSegment(s) ==
    IF IndexByte(s, "/") = 0 THEN s ELSE SubSeq(s, 1, IndexByte(s, "/") - 1)

\* The first segment of the path of f taken relative to the root path.
SegmentBelow(f, topPath) ==
    FirstSegment(TrimPrefix(f.FileName, TreePrefix(topPath)))

\* The groups of references of a cross-reference response.
Refs == Body.refs

\* The FileSites of all groups, group after group.
RECURSIVE Flatten(_)
Flatten(groups) ==
    IF groups = <<>> THEN <<>> ELSE groups[1].Files \o Flatten(Tail(groups))

Count(s, x) == Cardinality({i \in DOMAIN s : s[i] = x})

\* The same elements, each as many times.
SameBag(s, t) ==
    Len(s) = Len(t) /\ \A i \in DOMAIN s : Count(s, s[i]) = Count(t, s[i])

\* The position of the first site with the checksum of site i.
FirstWithChecksum(i) ==
    CHOOSE j \in 1..i :
        /\ sites[j].fileChecksum = sites[i].fileChecksum
        /\ \A k \in 1..(j - 1) : sites[k].fileChecksum # sites[i].fileChecksum

\* What is to be emitted for site i of the relevance-sorted list.
ExpectedFileSite(i) ==
    [ContainingFile |-> sites[i].containingFile,
     IsDupOf |-> IF FirstWithChecksum(i) = i THEN Nil
                 ELSE Ptr(sites[FirstWithChecksum(i)].containingFile),
     Snippets |-> sites[i].snippets]

\* C1: file-content dedup.  Of the sites of one checksum, taken in the order
\* of the relevance-sorted list, the first is emitted with isDupOf = null and
\* every later one with isDupOf = the DisplayedFile of the first; rcDupFiles
\* is the number of emitted sites with isDupOf set.
FileContentDedup ==
    Done("xref") /\ err = "none" =>
        /\ SameBag(Flatten(Refs), [i \in DOMAIN sites |-> ExpectedFileSite(i)])
        /\ Body.refCounts.rcDupFiles =
               Cardinality({k \in DOMAIN Flatten(Refs) :
                               Flatten(Refs)[k].IsDupOf # Nil})

\* Two files with the same checksum at different paths: one canonical entry,
\* one duplicate pointing at it.
FileContentDedupWitness ==
    /\ Done("xref") /\ err = "none"
    /\ backend.files = <<XrefFile(Repo1, PathA, <<"k", "1">>, LinesF),
                         XrefFile(Repo1, PathB, <<"k", "1">>, LinesF)>>
    /\ Flatten(Refs)[1].IsDupOf = Nil
    /\ Flatten(Refs)[2].IsDupOf =
           Ptr(DisplayedFile(formatTicket(Repo1, PathA)))
    /\ Body.refCounts.rcDupFiles = 1

\* The raw bytes of the matched lines of a file, line by line.
LineBytes(f) == [k \in DOMAIN f.LineMatches |-> f.LineMatches[k].Line]

\* Is the entry of file f a member of the group?
InGroup(group, f) ==
    \E m \in DOMAIN group.Files :
        /\ group.Files[m].ContainingFile.FileTicket =
               formatTicket(f.Repository, f.FileName)
        /\ group.Files[m].Snippets = SnippetsOf(f.LineMatches)

RECURSIVE SumOfExtraMembers(_)
SumOfExtraMembers(groups) ==
    IF groups = <<>> THEN 0
    ELSE Len(groups[1].Files) - 1 + SumOfExtraMembers(Tail(groups))

\* C2: match-content grouping.  Two returned files whose matched lines are the
\* same sequence of byte strings are in the same group, whatever their
\* checksum, repository or path; rcDupMatches counts the members added to a
\* group that had a member already, that is rcFiles minus the number of groups.
MatchContentGrouping ==
    Done("xref") /\ err = "none" =>
        /\ \A i, j \in DOMAIN backend.files :
             LineBytes(backend.files[i]) = LineBytes(backend.files[j]) =>
                 \E g \in DOMAIN Refs :
                     /\ InGroup(Refs[g], backend.files[i])
                     /\ InGroup(Refs[g], backend.files[j])
        /\ Body.refCounts.rcDupMatches = SumOfExtraMembers(Refs)
        /\ Body.refCounts.rcDupMatches = Body.refCounts.rcFiles - Len(Refs)

\* Two files of different repositories and checksums with the same matched
\* line, at different line numbers, share the one group.
MatchContentGroupingWitness ==
    /\ Done("xref") /\ err = "none"
    /\ backend.files = <<XrefFile(Repo1, PathA, <<"k", "1">>, LinesF),
                         XrefFile(Repo2, PathA, <<"k", "2">>, LinesFLater)>>
    /\ Len(Refs) = 1
    /\ Len(Refs[1].Files) = 2
    /\ Body.refCounts.rcDupMatches = 1

\* The file tickets of a list of sites.
TicketsIn(ss) == [i \in DOMAIN ss |-> ss[i].containingFile.FileTicket]

\* C3: relevance ordering.  The sites handed to grouping are the files of the
\* backend with those of exactly the request ticket first, then the other
\* files of its repository, then the files of other repositories, each class
\* in the order of the backend.
RelevanceOrdering ==
    Done("xref") /\ err \in {"none", "encode", "panic"} =>
        LET Exact(f) ==
                f.Repository = reqTicket.repo /\ f.FileName = reqTicket.path
            SameRepo(f) ==
                f.Repository = reqTicket.repo /\ f.FileName # reqTicket.path
            Other(f) == f.Repository # reqTicket.repo
        IN  sites = SitesOf(SelectSeq(backend.files, Exact)
                                \o SelectSeq(backend.files, SameRepo)
                                \o SelectSeq(backend.files, Other))

\* [r2:a, r1:b, r1:a, r2:b] with the ticket r1:a became
\* [r1:a, r1:b, r2:a, r2:b].
RelevanceOrderingWitness ==
    /\ Done("xref") /\ err = "none"
    /\ request.ticket = <<formatTicket(Repo1, PathA)>>
    /\ [k \in DOMAIN backend.files |->
           formatTicket(backend.files[k].Repository, backend.files[k].FileName)]
           = <<formatTicket(Repo2, PathA), formatTicket(Repo1, PathB),
               formatTicket(Repo1, PathA), formatTicket(Repo2, PathB)>>
    /\ TicketsIn(sites)
           = <<formatTicket(Repo1, PathA), formatTicket(Repo1, PathB),
               formatTicket(Repo2, PathA), formatTicket(Repo2, PathB)>>

\* C5: every handler answers every internal error with status 418 and a
\* plain-text error body; no request that met an error ends without a
\* response or with status 200.
ErrorsAnsweredWithTeapot ==
    pc = "done" /\ err # "none" =>
        /\ response.status = StatusTeapot
        /\ response.sentType = ErrorType
        /\ \A i \in DOMAIN response.body : response.body[i].kind = "error"

\* C4: exact-repository post-filter.  With a root repository R, every child
\* of a file-tree response is the node of a returned file whose repository is
\* exactly R, and /api/source serves the content of a file of exactly R.
ExactRepositoryFilter ==
    /\ Done("filetree") /\ err = "none" /\ reqTicket.repo # <<>> =>
         \A i \in DOMAIN Children :
           \E k \in DOMAIN backend.files :
             /\ backend.files[k].Repository = reqTicket.repo
             /\ Children[i].Display =
                    SegmentBelow(backend.files[k], reqTicket.path)
             /\ Children[i].KytheUri =
                    reqTicket.repo \o <<":">> \o TreePrefix(reqTicket.path)
                        \o Children[i].Display
    /\ Done("source") /\ response.status = StatusOK /\ response.body # <<>> =>
         \E k \in DOMAIN backend.files :
           /\ backend.files[k].Repository = reqTicket.repo
           /\ Body = backend.files[k].Content
           /\ Body[1] = reqTicket.repo

\* A file of a repository that contains the root repository as a substring
\* came back first and nothing of it shows in the tree.
ExactRepositoryFilterWitness ==
    /\ Done("filetree") /\ err = "none"
    /\ reqTicket.repo = RepoR
    /\ Len(backend.files) = 2
    /\ backend.files[1] = TreeFile(RepoRX, NameY)
    /\ backend.files[2].Repository = RepoR
    /\ Len(Children) = 1

\* Has the text repository:path with both parts non-empty?
CompleteText(t) == IndexByte(t, ":") > 1 /\ IndexByte(t, ":") < Len(t)

\* C6: /api/source with an incomplete ticket returns an error without a
\* backend search; it searches only when the ticket parameter is there exactly
\* once and complete.
SourceNeedsCompleteTicket ==
    Done("source") =>
        /\ calls # <<>> =>
             Len(request.ticket) = 1 /\ CompleteText(request.ticket[1])
        /\ Len(request.ticket) = 1 /\ ~CompleteText(request.ticket[1]) =>
             /\ calls = <<>>
             /\ err # "none"
             /\ response.status = StatusTeapot

\* A ticket with a repository and a colon but no path was refused.
SourceNeedsCompleteTicketWitness ==
    /\ Done("source")
    /\ request.ticket = << <<"r", ":">> >>
    /\ calls = <<>>
    /\ response.status = StatusTeapot

\* C7: file-tree ordering.  In every file-tree response the directories come
\* before the files, and each of the two groups is in ascending byte-wise
\* order of display name.
FileTreeOrdering ==
    Done("filetree") /\ err = "none" =>
        \A i, j \in DOMAIN Children :
            i < j =>
                /\ ~(Children[i].IsFile /\ ~Children[j].IsFile)
                /\ Children[i].IsFile = Children[j].IsFile =>
                       ~StrLess(Children[j].Display, Children[i].Display)

\* The backend returned b.txt, a/x, c/x and the tree shows a, c, b.txt.
FileTreeOrderingWitness ==
    /\ Done("filetree") /\ err = "none"
    /\ reqTicket = [repo |-> RepoR, path |-> <<>>]
    /\ [k \in DOMAIN backend.files |-> backend.files[k].FileName]
           = <<NameB, NameAX, NameCX>>
    /\ [i \in DOMAIN Children |-> Children[i].Display]
           = << <<"a">>, <<"c">>, NameB >>
    /\ [i \in DOMAIN Children |-> Children[i].IsFile] = <<FALSE, FALSE, TRUE>>

\* C8: directory-level dedup.  With top = R:P the children are one node per
\* distinct first segment of the paths, relative to P + "/", of the returned
\* files of exactly R; no segment has two nodes and no node stands for P.
DirectoryLevelDedup ==
    Done("filetree") /\ err = "none" /\ reqTicket.repo # <<>> =>
        LET segments ==
                {SegmentBelow(backend.files[k], reqTicket.path) :
                    k \in {n \in DOMAIN backend.files :
                              backend.files[n].Repository = reqTicket.repo}}
        IN  /\ {Children[i].Display : i \in DOMAIN Children} = segments
            /\ Len(Children) = Cardinality(segments)
            /\ \A i \in DOMAIN Children :
                 /\ Children[i].KytheUri # formatTicket(reqTicket.repo,
                                                        reqTicket.path)
                 /\ Children[i].KytheUri # request.top[1]

\* Under top = r:d the files d/a and d/b give the two file nodes a and b.
DirectoryLevelDedupWitness ==
    /\ Done("filetree") /\ err = "none"
    /\ reqTicket = [repo |-> RepoR, path |-> <<"d">>]
    /\ backend.files = <<TreeFile(RepoR, NameDA), TreeFile(RepoR, NameDB)>>
    /\ Children =
           <<FileTree(<<"r", ":", "d", "/", "a">>, <<"a">>, TRUE, Nil),
             FileTree(<<"r", ":", "d", "/", "b">>, <<"b">>, TRUE, Nil)>>

\* C9: lazy tree nodes.  The synthetic root of every file-tree response has
\* its children present, and every node of that list has its children absent.
LazyTreeNodes ==
    Done("filetree") /\ err = "none" =>
        /\ Body.Children # Nil
        /\ \A i \in DOMAIN Children : Children[i].Children = Nil

\* A response that lists a directory and a file.
LazyTreeNodesWitness ==
    /\ Done("filetree") /\ err = "none"
    /\ \E i, j \in DOMAIN Children :
         Children[i].IsFile /\ ~Children[j].IsFile

\* Non-empty texts without a colon.
ColonFreeTexts == SeqsUpTo({"a", "/"}, MaxTextLen) \ {<<>>}

\* C10: ticket round-trip.  For a non-empty repository and a non-empty path
\* without colon, parsing repository + ":" + path gives back the two.
TicketRoundTrip ==
    Done("parseTicket") =>
        \A r, p \in ColonFreeTexts :
            request.ticket[1] = formatTicket(r, p) =>
                reqTicket = [repo |-> r, path |-> p]

\* The text a:/a was parsed.
TicketRoundTripWitness ==
    /\ Done("parseTicket")
    /\ request.ticket[1] = formatTicket(<<"a">>, <<"/", "a">>)
    /\ reqTicket = [repo |-> <<"a">>, path |-> <<"/", "a">>]

\* C11: parseTicket always yields a ticket, cut at the first colon only: the
\* repo is the text before the first colon (the whole text when there is
\* none), the path is everything after that colon, further colons included
\* (empty when there is none); complete() holds exactly when both are
\* non-empty.
ParseTicketFirstColon ==
    Done("parseTicket") =>
        LET text == request.ticket[1]
            colons == {i \in 1..Len(text) : text[i] = ":"}
        IN  /\ colons = {} => reqTicket = [repo |-> text, path |-> <<>>]
            /\ colons # {} =>
                  /\ \A i \in 1..Len(reqTicket.repo) : reqTicket.repo[i] # ":"
                  /\ reqTicket.repo \o <<":">> \o reqTicket.path = text
            /\ ret = (Len(reqTicket.repo) > 0 /\ Len(reqTicket.path) > 0)

ParseTicketFirstColonWitness ==
    /\ Done("parseTicket")
    /\ request.ticket[1] = <<"a", ":", "/", ":">>
    /\ reqTicket = [repo |-> <<"a">>, path |-> <<"/", ":">>]
    /\ ret = TRUE

ChecksumFixesLines ==
    \A i, j \in DOMAIN backend.files :
        backend.files[i].Checksum = backend.files[j].Checksum =>
            LineBytes(backend.files[i]) = LineBytes(backend.files[j])

RECURSIVE TotalLines(_)
TotalLines(files) ==
    IF files = <<>> THEN 0
    ELSE Len(files[1].LineMatches) + TotalLines(Tail(files))

RECURSIVE TotalSnippets(_)
TotalSnippets(members) ==
    IF members = <<>> THEN 0
    ELSE Len(members[1].Snippets) + TotalSnippets(Tail(members))

\* C13: rcFiles is the number of files the backend returned for the real
\* query and rcLines the number of their line matches, which is the number
\* of snippets of all FileSites of all groups of refs; the declarations add
\* nothing to either.
RefCountsOfRealQuery ==
    Done("xref") /\ err = "none" =>
        /\ Body.refCounts.rcFiles = Len(backend.files)
        /\ Body.refCounts.rcFiles = Len(Flatten(Refs))
        /\ Body.refCounts.rcLines = TotalLines(backend.files)
        /\ Body.refCounts.rcLines = TotalSnippets(Flatten(Refs))

\* Two files, three matched lines, one of them a declaration.
RefCountsOfRealQueryWitness ==
    /\ Done("xref") /\ err = "none"
    /\ backend.files = <<XrefFile(Repo2, PathB, <<"k", "3">>, LinesFFThenF),
                         XrefFile(Repo2, PathA, <<"k", "2">>, LinesData)>>
    /\ Body.declarations # <<>>
    /\ Body.refCounts.rcFiles = 2
    /\ Body.refCounts.rcLines = 3

\* The value of a request parameter given once, the empty text when absent.
Param(values) == IF values = <<>> THEN <<>> ELSE values[1]

Str_case == <<"c", "a", "s", "e", ":">>

\* C14: query construction by mode.  In mode Lax, which is also the mode of
\* a request with no mode or an unrecognized one, the query of every backend
\* call is "case:<casing> " followed by escapeLiteralQuery(selection); in
\* mode Boundary the escaped selection stands between two \b; in mode Raw
\* the query is the selection, unchanged and unescaped.
QueryByMode ==
    Done("xref") =>
        \A k \in DOMAIN calls :
            LET selection == request.selection[1]
                mode == Param(request.mode)
                wordBreak == <<"\\", "b">>
            IN  \E casing \in {Str_yes, Str_no, Str_auto} :
                    calls[k].query =
                        IF mode = Str_Raw THEN selection
                        ELSE IF mode = Str_Boundary
                        THEN Str_case \o casing \o <<" ">> \o wordBreak
                                 \o escapeLiteralQuery(selection) \o wordBreak
                        ELSE Str_case \o casing \o <<" ">>
                                 \o escapeLiteralQuery(selection)

\* A selection with a character to escape, searched in mode Boundary.
QueryByModeWitness ==
    /\ Done("xref")
    /\ request.selection = <<Sel_call>>
    /\ request.mode = <<Str_Boundary>>
    /\ Len(calls) = 2
    /\ calls[2].query =
           <<"c", "a", "s", "e", ":", "a", "u", "t", "o", " ",
             "\\", "b", "f", "\\", "(", "\\", "b">>

\* The case option a query text carries: the one it names in front, the
\* backend's default auto when it names none.
CaseOptionOf(query) ==
    IF HasPrefix(query, Str_case \o Str_yes \o <<" ">>) THEN Str_yes
    ELSE IF HasPrefix(query, Str_case \o Str_no \o <<" ">>) THEN Str_no
    ELSE Str_auto

\* The casing asked for: the parameter when it is yes, no or auto, else auto.
CasingAsked ==
    IF Param(request.casing) \in {Str_yes, Str_no} THEN Param(request.casing)
    ELSE Str_auto

\* C15 as stated: in each of the three modes the query of every backend call
\* carries the case option the casing parameter asks for.
CasingForwarded ==
    Done("xref") =>
        \A k \in DOMAIN calls : CaseOptionOf(calls[k].query) = CasingAsked

\* C15 amended: in the modes Lax and Boundary the query of every backend
\* call starts with "case:<casing> ", casing being the parameter when it is
\* yes, no or auto, else auto; in mode Raw the query is the selection alone
\* and the casing parameter is not forwarded.
CasingForwardedUnlessRaw ==
    Done("xref") =>
        \A k \in DOMAIN calls :
            IF Param(request.mode) = Str_Raw
            THEN calls[k].query = request.selection[1]
            ELSE HasPrefix(calls[k].query, Str_case \o CasingAsked \o <<" ">>)

\* casing=no in mode Boundary is forwarded; an unrecognized casing would not.
CasingForwardedWitness ==
    /\ Done("xref")
    /\ request.casing = <<Str_no>>
    /\ request.mode = <<Str_Boundary>>
    /\ Len(calls) = 2
    /\ HasPrefix(calls[1].query, <<"c", "a", "s", "e", ":", "n", "o", " ">>)

\* The characters the query language gives a meaning to.
EscapedCharacters ==
    {":", "(", ")", "[", "]", "\\", ".", "*", "?", "^", "$", "+", "{", "}",
     ",", " "}

\* The number of characters to escape among the first i of the text.
EscapesUpTo(text, i) ==
    Cardinality({j \in 1..i : text[j] \in EscapedCharacters})

\* out is text with one backslash put in front of each character to escape
\* and nothing else changed: character i of text is at place i plus the
\* number of backslashes put in up to it, the backslash just before it.
EscapedFrom(text, out) ==
    /\ Len(out) = Len(text) + EscapesUpTo(text, Len(text))
    /\ \A i \in 1..Len(text) :
          /\ out[i + EscapesUpTo(text, i)] = text[i]
          /\ text[i] \in EscapedCharacters =>
                out[i + EscapesUpTo(text, i) - 1] = "\\"

\* C16 as stated: for every input text the output of escapeLiteralQuery is
\* the input with one backslash in front of each character of the set and
\* every other character unchanged, its length the length of the input plus
\* the number of characters of the set in the input.
EscapeInsertsBackslashes ==
    Done("escapeLiteralQuery") => EscapedFrom(request.selection[1], ret)

\* Is the text valid UTF-8?
ValidUTF8(text) ==
    \A i \in 1..Len(text) :
        /\ text[i] # ByteFF
        /\ text[i] = ByteC3 => i < Len(text) /\ text[i + 1] = ByteA9
        /\ text[i] = ByteA9 => i > 1 /\ text[i - 1] = ByteC3

\* C16 amended: the same for every input text that is valid UTF-8.
EscapeInsertsBackslashesInUTF8 ==
    Done("escapeLiteralQuery") /\ ValidUTF8(request.selection[1]) =>
        EscapedFrom(request.selection[1], ret)

\* A text with a two-byte rune, a period, a backslash and a letter.
EscapeInsertsBackslashesWitness ==
    /\ Done("escapeLiteralQuery")
    /\ request.selection[1] = <<ByteC3, ByteA9, ".", "\\">>
    /\ ret = <<ByteC3, ByteA9, "\\", ".", "\\", "\\">>

\* C17: every response with status 200 of /api/filetree, /api/decor and
\* /api/search-xref is sent with Content-Type application/json;
\* charset=UTF-8.
JsonContentType ==
    /\ pc = "done"
    /\ handler \in {"filetree", "decor", "xref"}
    /\ response.status = StatusOK
    => response.sentType = JsonType

\* C19: inert default ticket.  When the request has no ticket parameter the
\* relevance sort leaves the list of sites as it is: the sites reach the
\* grouping in the order the backend returned the files.
InertDefaultTicket ==
    Done("xref") /\ err = "none" /\ request.ticket = <<>> =>
        TicketsIn(sites) =
            [i \in DOMAIN backend.files |->
                formatTicket(backend.files[i].Repository,
                             backend.files[i].FileName)]

\* C20: every two FileSites of one SiteGroup of refs come from files with
\* the same sequence of matched raw lines.
SameLinesInGroup ==
    Done("xref") /\ err = "none" =>
        \A g \in DOMAIN Refs :
            \A i, j \in DOMAIN backend.files :
                InGroup(Refs[g], backend.files[i])
                    /\ InGroup(Refs[g], backend.files[j])
                => LineBytes(backend.files[i]) = LineBytes(backend.files[j])

\* C21: backend call protocol of a cross-reference request.  The count-only
\* search is the first call and the real search, with MaxDocDisplayCount =
\* 500, the second, both with the same query; a query that does not parse
\* makes no call; when the count-only search fails the real search is not
\* issued; after a backend error there is no further call, no call is made
\* twice, and no refs/declarations body is written.
BackendCallProtocol ==
    Done("xref") =>
        /\ Len(calls) <= 2
        /\ \A k \in DOMAIN calls :
             /\ calls[k].op = "Search"
             /\ calls[k].query = calls[1].query
             /\ calls[k].opts.EstimateDocCount = (k = 1)
        /\ Len(calls) = 2 => calls[2].opts.MaxDocDisplayCount = 500
        /\ err = "query parse" => calls = <<>>
        /\ backend.fail = "estimate" => Len(calls) = 1
        /\ backend.fail = "search" => Len(calls) = 2
        /\ backend.fail # "none" =>
             /\ response.status = StatusTeapot
             /\ \A i \in DOMAIN response.body :
                  response.body[i].kind # "json"

\* The count-only search failed: one call, answered with the error.
BackendCallProtocolWitness ==
    /\ Done("xref")
    /\ backend.fail = "estimate"
    /\ Len(calls) = 1
    /\ calls[1].opts.EstimateDocCount
    /\ response.status = StatusTeapot

\* The returned files of the root repository whose path below the root path
\* starts with the segment, by position in the backend answer.
FilesOfSegment(segment) ==
    {k \in DOMAIN backend.files :
        /\ backend.files[k].Repository = reqTicket.repo
        /\ SegmentBelow(backend.files[k], reqTicket.path) = segment}

\* C22: file or directory by first occurrence.  Under a root repository the
\* isFile of each child is true exactly when the first returned file of
\* exactly that repository whose relative path starts with the child's
\* segment has no slash after the segment; later files of the segment change
\* nothing.
FirstOccurrenceDecides ==
    Done("filetree") /\ err = "none" /\ reqTicket.repo # <<>> =>
        \A i \in DOMAIN Children :
            LET ks == FilesOfSegment(Children[i].Display)
                first == CHOOSE k \in ks : \A n \in ks : k <= n
                relative == TrimPrefix(backend.files[first].FileName,
                                       TreePrefix(reqTicket.path))
            IN  /\ ks # {}
                /\ Children[i].IsFile = (relative = Children[i].Display)

\* A file of the directory d comes before a file named d: the node d is a
\* directory.
FirstOccurrenceDecidesWitness ==
    /\ Done("filetree") /\ err = "none"
    /\ reqTicket = [repo |-> RepoR, path |-> <<>>]
    /\ backend.files = <<TreeFile(RepoR, NameDA), TreeFile(RepoR, NameD)>>
    /\ Len(Children) = 1
    /\ Children[1].Display = <<"d">>
    /\ Children[1].IsFile = FALSE

\* The members of refs that stand for the file f.
MembersOf(f) ==
    {m \in DOMAIN Flatten(Refs) :
        Flatten(Refs)[m].ContainingFile.FileTicket =
            formatTicket(f.Repository, f.FileName)}

\* The snippets are those of the line matches, one for one: all four points
\* on line LineNumber - 1, the full span over the columns of the whole line,
\* the occurrence span over the columns of the first fragment.
SpansOf(snippets, lineMatches) ==
    /\ Len(snippets) = Len(lineMatches)
    /\ \A n \in DOMAIN lineMatches :
         LET l == lineMatches[n]
             s == snippets[n]
         IN  /\ s.FullSpan.From = [Line |-> l.LineNumber - 1, Ch |-> 0]
             /\ s.FullSpan.To = [Line |-> l.LineNumber - 1,
                                 Ch |-> l.LineEnd - l.LineStart]
             /\ s.OccurrenceSpan.From =
                    [Line |-> l.LineNumber - 1,
                     Ch |-> l.LineFragments[1].LineOffset]
             /\ s.OccurrenceSpan.To =
                    [Line |-> l.LineNumber - 1,
                     Ch |-> l.LineFragments[1].LineOffset
                                + l.LineFragments[1].MatchLength]

\* C23: snippet span mapping.  Each line match of each returned file gives
\* exactly one snippet, whatever the number of its fragments; its four points
\* are on line LineNumber - 1, fullSpan runs from column 0 to column
\* LineEnd - LineStart and occurrenceSpan from the LineOffset of the first
\* fragment to LineOffset + MatchLength; the later fragments change nothing.
SnippetSpans ==
    Done("xref") /\ err = "none" =>
        \A k \in DOMAIN backend.files :
            \E m \in MembersOf(backend.files[k]) :
                SpansOf(Flatten(Refs)[m].Snippets, backend.files[k].LineMatches)

\* A file with two matched lines, the first with two fragments.
SnippetSpansWitness ==
    /\ Done("xref") /\ err = "none"
    /\ backend.files = <<XrefFile(Repo2, PathB, <<"k", "3">>, LinesFFThenF)>>
    /\ Len(Refs[1].Files[1].Snippets) = 2
    /\ Refs[1].Files[1].Snippets[1].OccurrenceSpan =
           [From |-> [Line |-> 0, Ch |-> 0], To |-> [Line |-> 0, Ch |-> 1]]
    /\ Refs[1].Files[1].Snippets[1].FullSpan =
           [From |-> [Line |-> 0, Ch |-> 0], To |-> [Line |-> 0, Ch |-> 2]]
    /\ Refs[1].Files[1].Snippets[2].FullSpan =
           [From |-> [Line |-> 1, Ch |-> 0], To |-> [Line |-> 1, Ch |-> 1]]

\* What stands for the bytes cut out of a line.
Str_clipped ==
    <<".", ".", ".", "l", "i", "n", "e", " ", "t", "o", "o", " ", "l", "o", "n",
      "g", ",", " ", "c", "l", "i", "p", "p", "e", "d", ".", ".", ".">>

Decls == Body.declarations

\* Every site once for each of its snippets, keeping that snippet only, in
\* the order of the sites and of their snippets.
RECURSIVE Expanded(_)
Expanded(ss) ==
    IF ss = <<>> THEN <<>>
    ELSE [n \in DOMAIN ss[1].snippets |->
             [ss[1] EXCEPT !.snippets = <<ss[1].snippets[n]>>]]
             \o Expanded(Tail(ss))

\* Can a be had from b by leaving elements out?
RECURSIVE IsSubsequence(_, _)
IsSubsequence(a, b) ==
    IF a = <<>> THEN TRUE
    ELSE IF b = <<>> THEN FALSE
    ELSE IF a[1] = b[1] THEN IsSubsequence(Tail(a), Tail(b))
    ELSE IsSubsequence(a, Tail(b))

\* C25: declarations are a copy, not a split.  Every declaration entry
\* carries exactly one snippet, which is a snippet of the FileSite of the
\* same file in refs; refs keeps every site and every snippet; the entries
\* of the declaration list follow the order of the relevance-sorted sites.
DeclarationsAreCopies ==
    Done("xref") /\ err = "none" =>
        /\ \A d \in DOMAIN decls : Len(decls[d].snippets) = 1
        /\ IsSubsequence(decls, Expanded(sites))
        /\ Len(Flatten(Decls)) = Len(decls)
        /\ \A d \in DOMAIN Flatten(Decls) :
             LET entry == Flatten(Decls)[d] IN
             /\ Len(entry.Snippets) = 1
             /\ \E m \in DOMAIN Flatten(Refs) :
                  /\ Flatten(Refs)[m].ContainingFile = entry.ContainingFile
                  /\ \E n \in DOMAIN Flatten(Refs)[m].Snippets :
                       Flatten(Refs)[m].Snippets[n] = entry.Snippets[1]
        /\ Len(Flatten(Refs)) = Len(backend.files)
        /\ \A k \in DOMAIN backend.files :
             \E m \in MembersOf(backend.files[k]) :
                 Len(Flatten(Refs)[m].Snippets)
                     = Len(backend.files[k].LineMatches)

\* A file with two declarations: two entries of one snippet each, and the
\* file keeps its two snippets in refs.
DeclarationsAreCopiesWitness ==
    /\ Done("xref") /\ err = "none"
    /\ backend.files =
           <<XrefFile(Repo2, PathB, <<"k", "8">>, LinesFAndData)>>
    /\ Len(decls) = 2
    /\ Len(Flatten(Decls)) = 2
    /\ Len(Refs[1].Files[1].Snippets) = 2

\* The positions of the input with the snippets hash of position i.
SameHash(input, i) ==
    {j \in DOMAIN input : input[j].snippetsHash = input[i].snippetsHash}

\* The positions of the input whose snippets hash no earlier position has.
FirstOfHash(input) ==
    {i \in DOMAIN input :
        \A j \in 1..(i - 1) : input[j].snippetsHash # input[i].snippetsHash}

\* How many elements of S are at most i.
Rank(i, S) == Cardinality({j \in S : j <= i})

\* The groups are the input cut into its classes: the site at position i is
\* the member of the group of its class, the groups counted by the position
\* of their first site and the members by their position.
GroupsPartition(groups, input) ==
    /\ Len(Flatten(groups)) = Len(input)
    /\ Len(groups) = Cardinality(FirstOfHash(input))
    /\ \A g \in DOMAIN groups : groups[g].Files # <<>>
    /\ \A i \in DOMAIN input :
         LET class == SameHash(input, i)
             first == CHOOSE j \in class : \A n \in class : j <= n
             g == Rank(first, FirstOfHash(input))
             m == Rank(i, class)
         IN  /\ m <= Len(groups[g].Files)
             /\ groups[g].Files[m].ContainingFile = input[i].containingFile
             /\ groups[g].Files[m].Snippets = input[i].snippets

\* C26: grouping is a partition that keeps first-seen order.  Every input
\* site is a member of exactly one group, exactly once; the members of all
\* groups are rcFiles in number; no group is empty; the groups follow the
\* input position of their first member and the members of a group the input
\* order.  This holds of the references and of the declarations.
GroupingIsPartition ==
    Done("xref") /\ err = "none" =>
        /\ GroupsPartition(Refs, sites)
        /\ GroupsPartition(Decls, decls)
        /\ Len(Flatten(Refs)) = Body.refCounts.rcFiles

\* Three sites, the third of the class of the first: two groups, the first
\* with the sites 1 and 3 in this order.
GroupingIsPartitionWitness ==
    /\ Done("xref") /\ err = "none"
    /\ request.ticket = <<>>
    /\ backend.files = <<XrefFile(Repo1, PathB, <<"k", "1">>, LinesF),
                         XrefFile(Repo2, PathB, <<"k", "1">>, LinesCall),
                         XrefFile(Repo2, PathA, <<"k", "2">>, LinesFLater)>>
    /\ Len(Refs) = 2
    /\ TicketsIn(sites) = <<formatTicket(Repo1, PathB),
                            formatTicket(Repo2, PathB),
                            formatTicket(Repo2, PathA)>>
    /\ [m \in DOMAIN Refs[1].Files |->
           Refs[1].Files[m].ContainingFile.FileTicket]
           = <<formatTicket(Repo1, PathB), formatTicket(Repo2, PathA)>>
    /\ Refs[2].Files[1].ContainingFile.FileTicket = formatTicket(Repo2, PathB)

\* No repository:path is returned twice.
EachFileOnce ==
    \A i, j \in DOMAIN backend.files :
        formatTicket(backend.files[i].Repository, backend.files[i].FileName)
            = formatTicket(backend.files[j].Repository,
                           backend.files[j].FileName)
        => i = j

\* No member is marked as a duplicate of its own file.
NoSelfDup(members) ==
    \A m \in DOMAIN members :
        members[m].IsDupOf # Nil =>
            members[m].IsDupOf[1].FileTicket
                # members[m].ContainingFile.FileTicket

\* C27: no FileSite is reported as a duplicate of itself.  When the backend
\* returns each repository:path at most once, the isDupOf of every FileSite
\* of refs and of declarations, where set, names another file than the
\* FileSite's own.
NotDupOfItself ==
    Done("xref") /\ err = "none" /\ EachFileOnce =>
        /\ NoSelfDup(Flatten(Refs))
        /\ NoSelfDup(Flatten(Decls))

\* C27 amended: when the backend returns each repository:path at most once,
\* the isDupOf of every FileSite of refs, where set, names another file than
\* the FileSite's own.  (In declarations a file with two declaration lines
\* has its second entry marked as a duplicate of the file itself.)
RefsNotDupOfItself ==
    Done("xref") /\ err = "none" /\ EachFileOnce => NoSelfDup(Flatten(Refs))

\* Two files of one checksum: the second is a duplicate of the first.
RefsNotDupOfItselfWitness ==
    /\ Done("xref") /\ err = "none" /\ EachFileOnce
    /\ request.ticket = <<>>
    /\ backend.files = <<XrefFile(Repo1, PathB, <<"k", "1">>, LinesF),
                         XrefFile(Repo1, PathA, <<"k", "1">>, LinesF)>>
    /\ Flatten(Refs)[2].ContainingFile.FileTicket = formatTicket(Repo1, PathA)
    /\ Flatten(Refs)[2].IsDupOf =
           Ptr(DisplayedFile(formatTicket(Repo1, PathB)))

\* C28: declaration grouping follows the retained line.  Two entries of the
\* declarations are in the same group exactly when the lines of their
\* snippets are the same bytes.
DeclarationsGroupedByLine ==
    Done("xref") /\ err = "none" =>
        \A g1, g2 \in DOMAIN Decls :
            \A m1 \in DOMAIN Decls[g1].Files, m2 \in DOMAIN Decls[g2].Files :
                (g1 = g2) <=>
                    (Decls[g1].Files[m1].Snippets[1].Text
                        = Decls[g2].Files[m2].Snippets[1].Text)

\* C29: the requested file comes first.  When the backend returns a file of
\* the repository and path of the request ticket, that file is the first
\* member of the first group of refs and is no duplicate, wherever it stands
\* in the backend answer and whatever files share its checksum or its lines.
RequestedFileFirst ==
    Done("xref") /\ err = "none" /\ Len(request.ticket) = 1
        /\ (\E k \in DOMAIN backend.files :
               /\ backend.files[k].Repository = reqTicket.repo
               /\ backend.files[k].FileName = reqTicket.path)
    => /\ Refs[1].Files[1].ContainingFile.FileTicket = request.ticket[1]
       /\ Refs[1].Files[1].IsDupOf = Nil

\* The requested file r1:a is returned last, after a file of its checksum
\* and lines: it leads the first group and the other file is its duplicate.
RequestedFileFirstWitness ==
    /\ Done("xref") /\ err = "none"
    /\ request.ticket = <<formatTicket(Repo1, PathA)>>
    /\ backend.files = <<XrefFile(Repo2, PathA, <<"k", "2">>, LinesFLater),
                         XrefFile(Repo1, PathB, <<"k", "1">>, LinesF),
                         XrefFile(Repo1, PathA, <<"k", "1">>, LinesF)>>
    /\ Refs[1].Files[1].ContainingFile.FileTicket = formatTicket(Repo1, PathA)
    /\ Refs[1].Files[1].IsDupOf = Nil
    /\ Refs[1].Files[2].IsDupOf =
           Ptr(DisplayedFile(formatTicket(Repo1, PathA)))

\* C30: tree ids can be expanded.  A file-tree request with top = the id of
\* a node of an earlier response (a repository, a repository@branch, the
\* repo:path of a directory) has as its root repository the repository the
\* node stands for, so that the files of that repository pass the
\* exact-repository filter; a node of a repository with files does not
\* expand to an empty list of children.
TreeIdsExpand ==
    pc = "done" /\ handler = "filetree" /\ expanded # Nil =>
        /\ reqTicket.repo = expanded[1].repo
        /\ (\E k \in DOMAIN CorpusFiles :
               /\ CorpusFiles[k].Repository = expanded[1].repo
               /\ HasPrefix(CorpusFiles[k].FileName,
                            TreePrefix(reqTicket.path)))
           => err = "none" /\ Children # <<>>

====
